---- MODULE Spec2Model ----
(***************************************************************************)
(* Personality Quiz (H5P): parameter sanitization of the standard variant  *)
(* and state reporting of the XR variant.                                  *)
(*                                                                         *)
(* JavaScript strings are modelled as sequences of one-character strings,  *)
(* JavaScript values as records [t, s] with t the typeof-like tag and s    *)
(* the characters of a string value.                                       *)
(***************************************************************************)
EXTENDS Integers, Sequences, FiniteSets, TLC

VARIABLES
  pc,               \* position of the constructor: "new", "done", "threw"
  authored,         \* params as passed by the editor (never modified)
  params,           \* this.params after sanitizeParameters
  value,            \* argument of a sanitizePersonalityOption call
  option,           \* what that call returned
  answersGiven,     \* XR: the content's answer history
  contentWasReset,  \* XR: this.contentWasReset
  returned          \* XR: what the last getCurrentState call returned

vars == <<pc, authored, params, value, option, answersGiven, contentWasReset,
          returned>>

-----------------------------------------------------------------------------
(* Bounds *)

\* Number of items the author entered: personalities, questions, answers,
\* and explicitly set visual.isAnimationOn / resultScreen parameters.
MaxSize == 5

\* Length of a token handed to sanitizePersonalityOption.
MaxLen == 5

\* XR: number of questions of the running quiz.
MaxXRQuestions == 3

-----------------------------------------------------------------------------
(* JavaScript values *)

Undefined == [t |-> "undefined", s |-> <<>>]
Null == [t |-> "null", s |-> <<>>]
Number == [t |-> "number", s |-> <<>>]
Str(s) == [t |-> "string", s |-> s]

IsNullish(v) == v.t \in {"undefined", "null"}

\* !v for the values above (the number stands for a non-zero number)
IsFalsy(v) == IsNullish(v) \/ (v.t = "string" /\ v.s = <<>>)

-----------------------------------------------------------------------------
(* String primitives *)

Whitespace == {" "}
Digits == {"0", "1"}

RECURSIVE TrimStart(_)
TrimStart(s) ==
  IF s # <<>> /\ Head(s) \in Whitespace THEN TrimStart(Tail(s)) ELSE s

RECURSIVE TrimEnd(_)
TrimEnd(s) ==
  IF s # <<>> /\ s[Len(s)] \in Whitespace
    THEN TrimEnd(SubSeq(s, 1, Len(s) - 1))
    ELSE s

\* String.prototype.trim
Trim(s) == TrimEnd(TrimStart(s))

LowerChar(c) == IF c = "A" THEN "a" ELSE IF c = "B" THEN "b" ELSE c

\* String.prototype.toLowerCase
ToLowerCase(s) == [i \in 1..Len(s) |-> LowerChar(s[i])]

\* String.prototype.split(sep) for a one-character separator
RECURSIVE Split(_, _)
Split(s, sep) ==
  IF \E i \in 1..Len(s) : s[i] = sep
    THEN LET i == CHOOSE k \in 1..Len(s) :
                    s[k] = sep /\ \A j \in 1..(k - 1) : s[j] # sep
         IN  <<SubSeq(s, 1, i - 1)>> \o Split(SubSeq(s, i + 1, Len(s)), sep)
    ELSE <<s>>

\* Array.prototype.join(sep)
RECURSIVE Join(_, _)
Join(segments, sep) ==
  IF segments = <<>> THEN <<>>
  ELSE IF Len(segments) = 1 THEN segments[1]
  ELSE segments[1] \o <<sep>> \o Join(Tail(segments), sep)

\* value.match(/=-?\d+$/)
MatchesScore(s) ==
  \E i \in 1..Len(s) :
    /\ s[i] = "="
    /\ LET rest == SubSeq(s, i + 1, Len(s))
           digits == IF rest # <<>> /\ rest[1] = "-" THEN Tail(rest) ELSE rest
       IN  /\ digits # <<>>
           /\ \A j \in 1..Len(digits) : digits[j] \in Digits

-----------------------------------------------------------------------------
(* Sanitization (standard variant) *)

\* 'ㅤ', the invisible one-character placeholder for a blank answer text
Placeholder == <<"U+3164">>

\* isPersonalityNameValid accepting every name
isPersonalityNameValidAny(name, personalities) == TRUE

\* isPersonalityNameValid(value): some personality's lower-cased name is value
isPersonalityNameValid(name, personalities) ==
  \E i \in 1..Len(personalities) : ToLowerCase(personalities[i].name) = name

\* sanitizePersonalityOption without the trim of the name
sanitizePersonalityOptionNoTrim(token, personalities) ==
  LET matched == MatchesScore(token)
      segments == Split(token, "=")
      score == IF matched THEN segments[Len(segments)] ELSE <<"1">>
      rawName == IF matched
                   THEN Join(SubSeq(segments, 1, Len(segments) - 1), "=")
                   ELSE token
      name == ToLowerCase(rawName)
  IN  IF ~isPersonalityNameValid(name, personalities)
        THEN Null
        ELSE Str(name \o <<"=">> \o score)

\* sanitizePersonalityOption(value): Null, or Str("name=score")
sanitizePersonalityOption(token, personalities) ==
  LET matched == MatchesScore(token)
      segments == Split(token, "=")
      score == IF matched THEN segments[Len(segments)] ELSE <<"1">>
      rawName == IF matched
                   THEN Join(SubSeq(segments, 1, Len(segments) - 1), "=")
                   ELSE token
      name == ToLowerCase(Trim(rawName))
  IN  IF ~isPersonalityNameValid(name, personalities)
        THEN Null
        ELSE Str(name \o <<"=">> \o score)

IsNotNull(v) == v # Null

\* sanitizeOptionPersonalities(personalities): the sanitized string ('' when
\* the argument is no string)
sanitizeOptionPersonalities(str, personalities) ==
  IF str.t # "string"
    THEN <<>>
    ELSE LET tokens == Split(str.s, ",")
             mapped == [i \in 1..Len(tokens) |->
                          sanitizePersonalityOption(tokens[i], personalities)]
             kept == SelectSeq(mapped, IsNotNull)
         IN  Join([i \in 1..Len(kept) |-> kept[i].s], ",")

HasPersonality(answer) == answer.personality # <<>>

\* filterAnswers without the filter
filterAnswersKeepAll(answers, personalities) ==
  [i \in 1..Len(answers) |->
     [ref |-> i,
      text |-> answers[i].text,
      personality |->
        sanitizeOptionPersonalities(answers[i].personality, personalities)]]

\* filterAnswers(answers): every answer with its personality string
\* sanitized, those with an empty one removed
filterAnswers(answers, personalities) ==
  LET mapped == [i \in 1..Len(answers) |->
                   [ref |-> i,
                    text |-> answers[i].text,
                    personality |->
                      sanitizeOptionPersonalities(answers[i].personality,
                                                  personalities)]]
  IN  SelectSeq(mapped, HasPersonality)

\* option.text ?? 'ㅤ'
defaultText(text) == IF IsNullish(text) THEN Str(Placeholder) ELSE text

\* the callback of questions.map in sanitizeParameters
mapQuestion(question, ref, personalities) ==
  LET answers == filterAnswers(question.answers, personalities)
  IN  [ref |-> ref,
       answers |-> [i \in 1..Len(answers) |->
                      [answers[i] EXCEPT !.text = defaultText(@)]]]

HasAnswers(question) == Len(question.answers) # 0

\* the questions pass without the filter on the number of answers
sanitizeQuestionsKeepAll(questions, personalities) ==
  [i \in 1..Len(questions) |-> mapQuestion(questions[i], i, personalities)]

\* the answer-personalities-relation part of sanitizeParameters
sanitizeQuestions(questions, personalities) ==
  LET mapped == [i \in 1..Len(questions) |->
                   mapQuestion(questions[i], i, personalities)]
  IN  SelectSeq(mapped, HasAnswers)

\* the reduce over personalitiesGroup.personalities, from entry i on
RECURSIVE reducePersonalities(_, _, _)
reducePersonalities(list, i, results) ==
  IF i > Len(list) THEN results
  ELSE LET personality == list[i]
           name == Trim(personality.name.s)
       IN  IF IsFalsy(personality.name) \/ Len(personality.name.s) = 0
             THEN reducePersonalities(list, i + 1, results)
           ELSE IF \E k \in 1..Len(results) : results[k].name = name
             THEN reducePersonalities(list, i + 1, results)
           ELSE reducePersonalities(list, i + 1,
                  Append(results, [ref |-> i, name |-> name]))

\* sanitizeParameters(): the value of this.params.personalities and
\* this.params.questions when it returns
sanitizeParameters(p) ==
  LET personalities == reducePersonalities(p.personalities, 1, <<>>)
  IN  [personalities |-> personalities,
       questions |-> sanitizeQuestions(p.questions, personalities)]

\* the TypeErrors of the constructor and of sanitizeParameters: a property
\* of undefined or null is read, or a method of a non-string is called
constructorThrows(p) ==
  \/ ~p.isAnimationOn /\ ~p.hasResultScreen
  \/ \E i \in 1..Len(p.personalities) :
       \/ p.personalities[i].t = "null"
       \/ ~IsFalsy(p.personalities[i].name) /\ p.personalities[i].name.t # "string"
  \/ \E i \in 1..Len(p.questions) : ~p.questions[i].hasAnswers

-----------------------------------------------------------------------------
(* Author input *)

Tuples(S, n) == [1..n -> S]

NamePool ==
  {Undefined, Str(<<>>), Str(<<" ">>), Str(<<"a">>), Str(<<"a", " ">>),
   Str(<<"A">>)}

\* an entry of personalitiesGroup.personalities: null, or an object
PersonalityPool ==
  {[t |-> "null", name |-> Undefined]}
    \cup {[t |-> "object", name |-> n] : n \in NamePool}

TextPool == {Undefined, Null, Str(<<>>), Str(<<"x">>)}

\* the personality field of an answer: missing, a number, '', 'a', 'A =-1,c'
OptionPool ==
  {Undefined, Number, Str(<<>>), Str(<<"a">>),
   Str(<<"A", " ", "=", "-", "1", ",", "c">>)}

\* an answer: every text with a personality string that survives, every
\* personality string with a text that is not blank
AnswerPool ==
  {[text |-> t, personality |-> Str(<<"a">>)] : t \in TextPool}
    \cup {[text |-> Str(<<"x">>), personality |-> o] : o \in OptionPool}

\* a question with its answers list (weight 1 + number of answers), or a
\* question without one (weight 1)
QuestionsOfSize(w) ==
  IF w = 1
    THEN {[hasAnswers |-> FALSE, answers |-> <<>>],
          [hasAnswers |-> TRUE, answers |-> <<>>]}
    ELSE {[hasAnswers |-> TRUE, answers |-> a] : a \in Tuples(AnswerPool, w - 1)}

RECURSIVE QuestionLists(_)
QuestionLists(k) ==
  IF k = 0 THEN {<<>>}
  ELSE UNION {{<<q>> \o rest : q \in QuestionsOfSize(w),
                               rest \in QuestionLists(k - w)} : w \in 1..k}

\* visual.isAnimationOn defaults to true, resultScreen has no default
FlagSize(on, rs) == (IF on THEN 0 ELSE 1) + (IF rs THEN 1 ELSE 0)

\* the parameters of at most MaxSize authored items
IsParams(p) ==
  \E f \in BOOLEAN \X BOOLEAN :
    \E np \in 0..(MaxSize - FlagSize(f[1], f[2])) :
      \E k \in 0..(MaxSize - FlagSize(f[1], f[2]) - np) :
        \E ps \in Tuples(PersonalityPool, np) :
          \E qs \in QuestionLists(k) :
            p = [isAnimationOn |-> f[1], hasResultScreen |-> f[2],
                 personalities |-> ps, questions |-> qs]

NoParams ==
  [isAnimationOn |-> TRUE, hasResultScreen |-> FALSE,
   personalities |-> <<>>, questions |-> <<>>]

Unsanitized == [personalities |-> <<>>, questions |-> <<>>]

-----------------------------------------------------------------------------
(* new PersonalityQuiz(params) *)

NoState == [t |-> "undefined", answersGiven |-> <<>>]

Init ==
  /\ pc = "new"
  /\ IsParams(authored)
  /\ params = Unsanitized
  /\ value = <<>>
  /\ option = Undefined
  /\ answersGiven = <<>>
  /\ contentWasReset = FALSE
  /\ returned = NoState

\* the constructor up to and including this.sanitizeParameters()
Construct ==
  /\ pc = "new"
  /\ IF constructorThrows(authored)
       THEN pc' = "threw" /\ params' = params
       ELSE pc' = "done" /\ params' = sanitizeParameters(authored)
  /\ UNCHANGED <<authored, value, option, answersGiven, contentWasReset,
                 returned>>

Next == Construct

Spec == Init /\ [][Next]_vars

-----------------------------------------------------------------------------
(* sanitizePersonalityOption on its own: every token of at most MaxLen     *)
(* characters, against the personalities of a few sanitized lists          *)

Alphabet == {"a", "A", " ", "=", "-", "1"}

Tokens == UNION {Tuples(Alphabet, n) : n \in 0..MaxLen}

\* personalities lists as the personality pass leaves them
KnownLists ==
  {reducePersonalities([i \in 1..Len(names) |->
                          [t |-> "object", name |-> Str(names[i])]], 1, <<>>) :
     names \in {<<>>, << <<"a">> >>, << <<"A">> >>, << <<" ">> >>,
                << <<"a", "=", "1">> >>, << <<"A", " ", "a">>, <<"a">> >>}}

InitOption ==
  /\ pc = "call"
  /\ authored = NoParams
  /\ \E known \in KnownLists : params = [personalities |-> known, questions |-> <<>>]
  /\ value \in Tokens
  /\ option = Undefined
  /\ answersGiven = <<>>
  /\ contentWasReset = FALSE
  /\ returned = NoState

SanitizeOption ==
  /\ pc = "call"
  /\ pc' = "returned"
  /\ option' = sanitizePersonalityOption(value, params.personalities)
  /\ UNCHANGED <<authored, params, value, answersGiven, contentWasReset,
                 returned>>

NextOption == SanitizeOption

SpecOption == InitOption /\ [][NextOption]_vars

-----------------------------------------------------------------------------
(* XR variant: the state reported to the host *)

\* getAnswerGiven(): the learner has answered at least one question
getAnswerGiven(answers) == Len(answers) > 0

\* this.content.getCurrentState(): the answer history
contentGetCurrentState(answers) == [t |-> "state", answersGiven |-> answers]

EmptyObject == [t |-> "object", answersGiven |-> <<>>]

\* getCurrentState without the case of a reset
getCurrentStateNoReset(answers, wasReset) ==
  IF ~getAnswerGiven(answers) THEN NoState ELSE contentGetCurrentState(answers)

\* getCurrentState()
getCurrentState(answers, wasReset) ==
  IF ~getAnswerGiven(answers)
    THEN (IF wasReset THEN EmptyObject ELSE NoState)
    ELSE contentGetCurrentState(answers)

\* a quiz of n questions with two valid answers each
XRParams(n) ==
  [isAnimationOn |-> TRUE, hasResultScreen |-> FALSE,
   personalities |-> <<[t |-> "object", name |-> Str(<<"a">>)]>>,
   questions |-> [i \in 1..n |->
     [hasAnswers |-> TRUE,
      answers |-> <<[text |-> Str(<<"x">>), personality |-> Str(<<"a">>)],
                    [text |-> Undefined, personality |-> Str(<<"A">>)]>>]]]

\* the answer histories the content accepts for its questions
Histories(questions) ==
  UNION {{h \in Tuples(1..2, n) :
            \A i \in 1..n : h[i] <= Len(questions[i].answers)} :
         n \in 0..Len(questions)}

InitXR ==
  /\ pc = "done"
  /\ \E n \in 0..MaxXRQuestions : authored = XRParams(n)
  /\ params = sanitizeParameters(authored)
  /\ value = <<>>
  /\ option = Undefined
  /\ answersGiven \in Histories(params.questions)   \* extras.previousState
  /\ contentWasReset = FALSE
  /\ returned = NoState

\* the learner answers the current question
Answer ==
  /\ Len(answersGiven) < Len(params.questions)
  /\ \E choice \in 1..Len(params.questions[Len(answersGiven) + 1].answers) :
       answersGiven' = Append(answersGiven, choice)
  /\ UNCHANGED <<pc, authored, params, value, option, contentWasReset, returned>>

\* onReset: this.resetTask({ focus: true })
ResetTask ==
  /\ answersGiven' = <<>>
  /\ contentWasReset' = TRUE
  /\ UNCHANGED <<pc, authored, params, value, option, returned>>

\* the host asks for the state to persist
GetCurrentState ==
  /\ returned' = getCurrentState(answersGiven, contentWasReset)
  /\ UNCHANGED <<pc, authored, params, value, option, answersGiven,
                 contentWasReset>>

NextXR == Answer \/ ResetTask \/ GetCurrentState

SpecXR == InitXR /\ [][NextXR]_vars

-----------------------------------------------------------------------------
(* Reference notions used by the properties *)

\* position of the last '=' of a token, 0 when it has none
LastEquals(token) ==
  IF \E i \in 1..Len(token) : token[i] = "="
    THEN CHOOSE i \in 1..Len(token) :
           token[i] = "=" /\ \A j \in (i + 1)..Len(token) : token[j] # "="
    ELSE 0

\* an optionally negative integer
IsInteger(s) ==
  /\ s # <<>>
  /\ \A i \in 1..Len(s) : s[i] \in Digits \/ (i = 1 /\ s[i] = "-")
  /\ s # <<"-">>

EndsWithScore(token) ==
  /\ LastEquals(token) > 0
  /\ IsInteger(SubSeq(token, LastEquals(token) + 1, Len(token)))

RefName(token) ==
  ToLowerCase(Trim(IF EndsWithScore(token)
                     THEN SubSeq(token, 1, LastEquals(token) - 1)
                     ELSE token))

RefScore(token) ==
  IF EndsWithScore(token)
    THEN SubSeq(token, LastEquals(token) + 1, Len(token))
    ELSE <<"1">>

Known(name, personalities) ==
  \E k \in 1..Len(personalities) : ToLowerCase(personalities[k].name) = name

RefOption(token, personalities) ==
  IF Known(RefName(token), personalities)
    THEN Str(RefName(token) \o <<"=">> \o RefScore(token))
    ELSE Null

\* an authored personality value with at least one token of a known personality
YieldsToken(v, personalities) ==
  /\ v.t = "string"
  /\ \E i \in 1..Len(Split(v.s, ",")) :
       Known(RefName(Split(v.s, ",")[i]), personalities)

\* the surviving answers, as <<question, answer>> positions in params
Surviving ==
  {qa \in (1..Len(params.questions)) \X (1..MaxSize) :
     qa[2] <= Len(params.questions[qa[1]].answers)}

SurvivingAnswer(qa) == params.questions[qa[1]].answers[qa[2]]

\* the answer as the author wrote it
AuthoredAnswer(qa) ==
  authored.questions[params.questions[qa[1]].ref].answers[SurvivingAnswer(qa).ref]

SurvivingTokens(qa) == Split(SurvivingAnswer(qa).personality, ",")

Blank(text) == IsNullish(text) \/ text = Str(<<>>)

-----------------------------------------------------------------------------
(* Properties *)

\* C1: the sanitized personalities have pairwise different names, every
\* kept entry is the first entry of the input with its trimmed name, and
\* the kept entries are in input order.
C1_FirstOccurrenceKept ==
  pc = "done" =>
    LET in == authored.personalities
        out == params.personalities
    IN  /\ \A i, j \in 1..Len(out) : i # j => out[i].name # out[j].name
        /\ \A k \in 1..Len(out) :
             /\ in[out[k].ref].name.t = "string"
             /\ out[k].name = Trim(in[out[k].ref].name.s)
             /\ \A j \in 1..(out[k].ref - 1) :
                  ~(in[j].name.t = "string" /\ Trim(in[j].name.s) = out[k].name)
        /\ \A i, j \in 1..Len(out) : i < j => out[i].ref < out[j].ref

\* C2: every token of every surviving answer's personality string is
\* name=score with name the lower-cased name of a sanitized personality and
\* score an integer.
C2_TokensKnown ==
  pc = "done" =>
    \A qa \in Surviving :
      \A i \in 1..Len(SurvivingTokens(qa)) :
        LET token == SurvivingTokens(qa)[i]
            eq == LastEquals(token)
        IN  /\ eq > 0
            /\ IsInteger(SubSeq(token, eq + 1, Len(token)))
            /\ \E k \in 1..Len(params.personalities) :
                 ToLowerCase(params.personalities[k].name)
                   = SubSeq(token, 1, eq - 1)

\* a token of an unknown personality was dropped from a surviving answer
C2_Witness ==
  /\ pc = "done"
  /\ \E qa \in Surviving :
       /\ AuthoredAnswer(qa).personality
            = Str(<<"A", " ", "=", "-", "1", ",", "c">>)
       /\ SurvivingAnswer(qa).personality = <<"a", "=", "-", "1">>

\* C3: sanitizePersonalityOption returns what the reference gives: split at
\* the last '=' when an integer follows it, else the whole token with score
\* 1; name trimmed and lower-cased; null for an unknown name.
C3_OptionReference ==
  pc = "returned" =>
    /\ option = RefOption(value, params.personalities)
    /\ (value = <<"a", "=", "1">> /\ Known(<<"a">>, params.personalities))
         => option = Str(<<"a", "=", "1">>)
    /\ (value = <<"A">> /\ Known(<<"a">>, params.personalities))
         => option = Str(<<"a", "=", "1">>)
    /\ (value = <<"a", "=", "1">> /\ params.personalities = <<>>)
         => option = Null

\* ' A=-1' against the personality 'A' gave 'a=-1'
C3_Witness ==
  /\ pc = "returned"
  /\ value = <<" ", "A", "=", "-", "1">>
  /\ option = Str(<<"a", "=", "-", "1">>)

\* C4: every sanitized question has an answer, every surviving answer a
\* non-empty personality string; an authored answer yielding no valid token
\* and a question left without answers are not in the result.
C4_NoEmptyQuestions ==
  pc = "done" =>
    /\ \A q \in 1..Len(params.questions) : Len(params.questions[q].answers) >= 1
    /\ \A qa \in Surviving :
         /\ SurvivingAnswer(qa).personality # <<>>
         /\ YieldsToken(AuthoredAnswer(qa).personality, params.personalities)
    /\ \A q \in 1..Len(authored.questions) :
         (\A a \in 1..Len(authored.questions[q].answers) :
            ~YieldsToken(authored.questions[q].answers[a].personality,
                         params.personalities))
           => \A k \in 1..Len(params.questions) : params.questions[k].ref # q

\* a question survived with fewer answers than the author gave it
C4_Witness ==
  /\ pc = "done"
  /\ \E k \in 1..Len(params.questions) :
       Len(params.questions[k].answers)
         < Len(authored.questions[params.questions[k].ref].answers)

\* C5: constructing the quiz never raises an error.
C5_NeverThrows == pc # "threw"

\* C6: every surviving answer has a non-empty text: the placeholder when the
\* author left it blank (missing, null, ''), the authored text otherwise.
C6_TextNeverEmpty ==
  pc = "done" =>
    \A qa \in Surviving :
      /\ SurvivingAnswer(qa).text.t = "string"
      /\ SurvivingAnswer(qa).text.s # <<>>
      /\ Blank(AuthoredAnswer(qa).text)
           => SurvivingAnswer(qa).text = Str(Placeholder)
      /\ ~Blank(AuthoredAnswer(qa).text)
           => SurvivingAnswer(qa).text = AuthoredAnswer(qa).text

C8_NamesNonEmpty ==
  pc = "done" =>
    /\ \A k \in 1..Len(params.personalities) : params.personalities[k].name # <<>>
    /\ \A qa \in Surviving :
         \A i \in 1..Len(SurvivingTokens(qa)) :
           LastEquals(SurvivingTokens(qa)[i]) # 1

\* C9: no two sanitized personalities have names equal ignoring case, so
\* every surviving token matches exactly one personality.
C9_UniqueMatch ==
  pc = "done" =>
    /\ \A i, j \in 1..Len(params.personalities) :
         i # j => ToLowerCase(params.personalities[i].name)
                    # ToLowerCase(params.personalities[j].name)
    /\ \A qa \in Surviving :
         \A i \in 1..Len(SurvivingTokens(qa)) :
           Cardinality({k \in 1..Len(params.personalities) :
             ToLowerCase(params.personalities[k].name)
               = RefName(SurvivingTokens(qa)[i])}) = 1

\* C10: an empty sanitized personalities list comes with an empty sanitized
\* questions list.
C10_NoPersonalitiesNoQuestions ==
  (pc = "done" /\ params.personalities = <<>>) => params.questions = <<>>

\* no personality survived although one was authored, and an answer names 'a'
C10_Witness ==
  /\ pc = "done"
  /\ params.personalities = <<>>
  /\ authored.personalities # <<>>
  /\ \E q \in 1..Len(authored.questions) :
       \E a \in 1..Len(authored.questions[q].answers) :
         authored.questions[q].answers[a].personality = Str(<<"a">>)

====
